---- MODULE Spec2Model ----
(***************************************************************************)
(* State-machine model of the two A-Frame components of the repository:    *)
(*   grab-control  (src/assets/js/move-objects.js)                         *)
(*   teleport-arc  (src/unnamed/part_000)                                  *)
(* Every event handler runs to completion before the next event (single    *)
(* threaded event loop), so one handler call is one action.  A handler     *)
(* that throws stops at the throwing statement: the assignments made       *)
(* before it stay, the later ones never happen.                            *)
(* Positions lie on one axis and are integers: units of 0.1 m in          *)
(* grab-control, of 0.00001 m in teleport-arc (where i*0.06 s, 6.0 m/s and *)
(* -9.8 m/s^2 then give exact integers).                                   *)
(***************************************************************************)
EXTENDS Integers, Sequences, FiniteSets, TLC

\* ------------------------------------------------------------------ bounds
\* hand positions range over 0..MaxPos
MaxPos == 4
\* constraints created over a run: ids 1..MaxConstraints
MaxConstraints == 2
\* teleport-arc: data.samples, the number of arc samples (30 by default)
Samples == 3
\* the controller's world position at a tick is 0..MaxOrigin metres
MaxOrigin == 1
\* the camera is 0..MaxHead metres from the rig origin
MaxHead == 1

\* --------------------------------------------------------- scene, constants
null == "null"
Hands == {"left", "right"}
Objects == {"o1", "o2"}
Entities == Hands \cup Objects

\* document order of sceneEl.querySelectorAll('[ammo-body]')
els == <<"left", "o1", "o2", "right">>

\* let minDist = 0.3
InteractionRadius == 3
\* objectBody.setActivationState(4)
DISABLE_DEACTIVATION == 4
\* body.setActivationState(1)
ACTIVE_TAG == 1

\* entities whose body handle / mesh may still be loading when the scene starts
LateBodies == {"left", "o1"}
LateMeshes == {"o1"}

\* the native temporaries grab() creates, and the ones its clean-up destroys
CreatedTemps == {"handWorldInv", "objWorld", "localFrameA", "localFrameB", "lower", "upper"}
DestroyedTemps == {"lower", "upper", "handWorldInv", "objWorld", "localFrameA", "localFrameB"}

NoConstraint == [id |-> 0]

VARIABLES
  \* ---- scene and environment
  controllers,     \* entities carrying the grab-control component
  pos,             \* world position of each entity
  movement,        \* el.getAttribute('movement').type, or null
  mesh,            \* el.getObject3D('mesh') exists
  body,            \* el.body exists
  activation,      \* activation state of each body
  windowAmmo,      \* window.Ammo is set
  ammoBound,       \* the free identifier `ammo' read by release() resolves
  physics,         \* sceneEl.systems.physics exists
  physicsWorld,    \* constraints registered in the physics world
  disposed,        \* ids of constraints given to ammo.destroy
  liveTemps,       \* native temporaries created and not destroyed: <<name, id>>
  nextId,          \* id of the next constraint object
  \* ---- grab-control component state
  grabbedObject,   \* this.grabbedObject, per controller
  constraint,      \* this.constraint, per controller
  \* ---- teleport-arc: scene and environment
  surfaces,        \* what a ray can hit, in scene traversal order: [at, cls]
  cameraRig,       \* this.cameraRig is an element
  camera,          \* sceneEl.camera is set
  rigAmmoBody,     \* the rig carries the ammo-body attribute
  rigBody,         \* rigEl.body: "none", "plain" (no setWorldTransform), "swt"
  rigParent,       \* rigObj.parent: [present, at, sign]
  rigPosition,     \* rigObj.position, in the parent's space
  camLocal,        \* camera position in the rig's space
  \* ---- teleport-arc component state
  visible,         \* this.visible
  hitPoint,        \* this.hitPoint: <<>> is null, <<p>> a point
  lineVisible,     \* this.line.visible
  cursorVisible,   \* this.cursorMesh.visible
  cursorPosition,  \* this.cursorMesh.position
  positions,       \* the line geometry's position array, one entry per sample
  \* ---- what the most recent step was
  lastEvent,       \* [ev, hand, exit]
  emitted,         \* events emitted by the most recent handler: <<entity, name>>
  thrown,          \* exception the most recent handler ended with, or "none"
  frameInput       \* controller pose read by the most recent step, if a tick: [origin, dir]

grabVars == <<controllers, pos, movement, mesh, body, activation, windowAmmo, ammoBound,
              physics, physicsWorld, disposed, liveTemps, nextId, grabbedObject,
              constraint>>
teleVars == <<surfaces, cameraRig, camera, rigAmmoBody, rigBody, rigParent, rigPosition,
              camLocal, visible, hitPoint, lineVisible, cursorVisible, cursorPosition,
              positions>>
histVars == <<lastEvent, emitted, thrown, frameInput>>
vars == <<grabVars, teleVars, histVars>>

Abs(x) == IF x < 0 THEN -x ELSE x

\* handPos.distanceTo(objPos)
distanceTo(a, b) == Abs(pos[a] - pos[b])

\* movement && movement.type === 'grabbable'
isGrabbable(el) == movement[el] = "grabbable"

\* faulty variant: the comparison written dist <= minDist
RECURSIVE ScanFromLastWins(_, _, _, _)
ScanFromLastWins(h, i, closestEl, minDist) ==
  IF i > Len(els) THEN closestEl
  ELSE LET el == els[i] IN
    IF el = h THEN ScanFromLastWins(h, i + 1, closestEl, minDist)
    ELSE IF ~isGrabbable(el) THEN ScanFromLastWins(h, i + 1, closestEl, minDist)
    ELSE IF ~mesh[el] THEN ScanFromLastWins(h, i + 1, closestEl, minDist)
    ELSE IF distanceTo(h, el) <= minDist
      THEN ScanFromLastWins(h, i + 1, el, distanceTo(h, el))
      ELSE ScanFromLastWins(h, i + 1, closestEl, minDist)

\* the for loop of onButtonDown from index i on, with the running closestEl, minDist
RECURSIVE ScanFrom(_, _, _, _)
ScanFrom(h, i, closestEl, minDist) ==
  IF i > Len(els) THEN closestEl
  ELSE LET el == els[i] IN
    IF el = h THEN ScanFrom(h, i + 1, closestEl, minDist)
    ELSE IF ~isGrabbable(el) THEN ScanFrom(h, i + 1, closestEl, minDist)
    ELSE IF ~mesh[el] THEN ScanFrom(h, i + 1, closestEl, minDist)
    ELSE IF distanceTo(h, el) < minDist
      THEN ScanFrom(h, i + 1, el, distanceTo(h, el))
      ELSE ScanFrom(h, i + 1, closestEl, minDist)

ClosestEl(h) == ScanFrom(h, 1, null, InteractionRadius)

\* faulty variant: the angular limits are never set, the rotation stays free
NewConstraintAngularFree(h, el) ==
  [id |-> nextId, bodyA |-> h, bodyB |-> el,
   frameA |-> pos[el] - pos[h], frameB |-> 0,
   linearLower |-> 0, linearUpper |-> 0, angularLower |-> 1, angularUpper |-> -1]

\* new ammo.btGeneric6DofConstraint(handBody, objectBody, localFrameA, localFrameB, false)
\* followed by the four set...Limit calls; localFrameA = inverse(hand) * object
NewConstraint(h, el) ==
  [id |-> nextId, bodyA |-> h, bodyB |-> el,
   frameA |-> pos[el] - pos[h], frameB |-> 0,
   linearLower |-> 0, linearUpper |-> 0, angularLower |-> 0, angularUpper |-> 0]

NoInput == [origin |-> 0, dir |-> 0]

HistIn(ev, h, exit, evs, exc, input) ==
  /\ lastEvent' = [ev |-> ev, hand |-> h, exit |-> exit]
  /\ emitted' = evs
  /\ thrown' = exc
  /\ frameInput' = input

Hist(ev, h, exit, evs, exc) == HistIn(ev, h, exit, evs, exc, NoInput)

\* faulty variant: only the hand's body is checked
BodyMissingHandOnly(h, el) == ~body[h]

\* if (!handBody || !objectBody) return
BodyMissing(h, el) == ~body[h] \/ ~body[el]

\* grab(el)
grab(h, el) ==
  IF BodyMissing(h, el) THEN
    /\ UNCHANGED grabVars
    /\ Hist("buttondown", h, "no-body", <<>>, "none")
  ELSE IF ~windowAmmo THEN
    /\ grabbedObject' = [grabbedObject EXCEPT ![h] = el]
    /\ UNCHANGED <<controllers, pos, movement, mesh, body, activation, windowAmmo,
                   ammoBound, physics, physicsWorld, disposed, liveTemps, nextId,
                   constraint>>
    /\ Hist("buttondown", h, "no-ammo", <<>>, "none")
  ELSE IF ~physics THEN
    \* physicsSystem.driver throws: constraint and temporaries are already created
    /\ grabbedObject' = [grabbedObject EXCEPT ![h] = el]
    /\ constraint' = [constraint EXCEPT ![h] = NewConstraint(h, el)]
    /\ liveTemps' = liveTemps \cup (CreatedTemps \X {nextId})
    /\ nextId' = nextId + 1
    /\ UNCHANGED <<controllers, pos, movement, mesh, body, activation, windowAmmo,
                   ammoBound, physics, physicsWorld, disposed>>
    /\ Hist("buttondown", h, "no-physics", <<>>, "TypeError")
  ELSE
    /\ grabbedObject' = [grabbedObject EXCEPT ![h] = el]
    /\ constraint' = [constraint EXCEPT ![h] = NewConstraint(h, el)]
    /\ physicsWorld' = physicsWorld \cup {NewConstraint(h, el)}
    /\ liveTemps' = (liveTemps \cup (CreatedTemps \X {nextId})) \ (DestroyedTemps \X {nextId})
    /\ nextId' = nextId + 1
    /\ activation' = [activation EXCEPT ![el] = DISABLE_DEACTIVATION]
    /\ UNCHANGED <<controllers, pos, movement, mesh, body, windowAmmo, ammoBound,
                   physics, disposed>>
    /\ Hist("buttondown", h, "grabbed", <<<<el, "grab-start">>>>, "none")

\* faulty variant: onButtonDown without its first line, the already-holding return
onButtonDownNoHoldingCheck(h) ==
  /\ h \in controllers
  /\ UNCHANGED teleVars
  /\ nextId <= MaxConstraints
  /\ IF ClosestEl(h) = null THEN
       /\ UNCHANGED grabVars
       /\ Hist("buttondown", h, "none-near", <<>>, "none")
     ELSE grab(h, ClosestEl(h))

\* onButtonDown
onButtonDown(h) ==
  /\ h \in controllers
  /\ UNCHANGED teleVars
  /\ nextId <= MaxConstraints
  /\ IF grabbedObject[h] # null THEN
       /\ UNCHANGED grabVars
       /\ Hist("buttondown", h, "holding", <<>>, "none")
     ELSE IF ClosestEl(h) = null THEN
       /\ UNCHANGED grabVars
       /\ Hist("buttondown", h, "none-near", <<>>, "none")
     ELSE grab(h, ClosestEl(h))

\* release()
release(h) ==
  IF constraint[h] = NoConstraint THEN
    /\ UNCHANGED grabVars
    /\ Hist("buttonup", h, "no-constraint", <<>>, "none")
  ELSE IF ~physics THEN
    /\ UNCHANGED grabVars
    /\ Hist("buttonup", h, "no-physics", <<>>, "TypeError")
  ELSE IF ~ammoBound THEN
    \* ammo.destroy(...): `ammo' is not defined in release()
    /\ physicsWorld' = physicsWorld \ {constraint[h]}
    /\ UNCHANGED <<controllers, pos, movement, mesh, body, activation, windowAmmo,
                   ammoBound, physics, disposed, liveTemps, nextId, grabbedObject,
                   constraint>>
    /\ Hist("buttonup", h, "ammo-unbound", <<>>, "ReferenceError")
  ELSE IF grabbedObject[h] = null THEN
    /\ physicsWorld' = physicsWorld \ {constraint[h]}
    /\ disposed' = disposed \cup {constraint[h].id}
    /\ constraint' = [constraint EXCEPT ![h] = NoConstraint]
    /\ UNCHANGED <<controllers, pos, movement, mesh, body, activation, windowAmmo,
                   ammoBound, physics, liveTemps, nextId, grabbedObject>>
    /\ Hist("buttonup", h, "no-object", <<>>, "none")
  ELSE IF ~body[grabbedObject[h]] THEN
    /\ physicsWorld' = physicsWorld \ {constraint[h]}
    /\ disposed' = disposed \cup {constraint[h].id}
    /\ constraint' = [constraint EXCEPT ![h] = NoConstraint]
    /\ UNCHANGED <<controllers, pos, movement, mesh, body, activation, windowAmmo,
                   ammoBound, physics, liveTemps, nextId, grabbedObject>>
    /\ Hist("buttonup", h, "no-body", <<>>, "TypeError")
  ELSE
    /\ physicsWorld' = physicsWorld \ {constraint[h]}
    /\ disposed' = disposed \cup {constraint[h].id}
    /\ constraint' = [constraint EXCEPT ![h] = NoConstraint]
    /\ activation' = [activation EXCEPT ![grabbedObject[h]] = ACTIVE_TAG]
    /\ grabbedObject' = [grabbedObject EXCEPT ![h] = null]
    /\ UNCHANGED <<controllers, pos, movement, mesh, body, windowAmmo, ammoBound,
                   physics, liveTemps, nextId>>
    /\ Hist("buttonup", h, "released", <<<<grabbedObject[h], "grab-end">>>>, "none")

\* onButtonUp
onButtonUp(h) ==
  /\ h \in controllers
  /\ UNCHANGED teleVars
  /\ IF grabbedObject[h] # null THEN release(h)
     ELSE /\ UNCHANGED grabVars
          /\ Hist("buttonup", h, "not-holding", <<>>, "none")

\* ---- environment: tracking moves a hand, assets and libraries finish loading
EnvHist == Hist("env", null, "env", <<>>, "none")

MoveHand(h, p) ==
  /\ h \in controllers
  /\ UNCHANGED teleVars
  /\ p # pos[h]
  /\ pos' = [pos EXCEPT ![h] = p]
  /\ UNCHANGED <<controllers, movement, mesh, body, activation, windowAmmo, ammoBound,
                 physics, physicsWorld, disposed, liveTemps, nextId, grabbedObject,
                 constraint>>
  /\ EnvHist

BodyLoaded(e) ==
  /\ ~body[e]
  /\ UNCHANGED teleVars
  /\ body' = [body EXCEPT ![e] = TRUE]
  /\ UNCHANGED <<controllers, pos, movement, mesh, activation, windowAmmo, ammoBound,
                 physics, physicsWorld, disposed, liveTemps, nextId, grabbedObject,
                 constraint>>
  /\ EnvHist

MeshLoaded(e) ==
  /\ ~mesh[e]
  /\ UNCHANGED teleVars
  /\ mesh' = [mesh EXCEPT ![e] = TRUE]
  /\ UNCHANGED <<controllers, pos, movement, body, activation, windowAmmo, ammoBound,
                 physics, physicsWorld, disposed, liveTemps, nextId, grabbedObject,
                 constraint>>
  /\ EnvHist

AmmoLoaded ==
  /\ ~windowAmmo
  /\ UNCHANGED teleVars
  /\ windowAmmo' = TRUE
  /\ UNCHANGED <<controllers, pos, movement, mesh, body, activation, ammoBound,
                 physics, physicsWorld, disposed, liveTemps, nextId, grabbedObject,
                 constraint>>
  /\ EnvHist

PhysicsReady ==
  /\ ~physics
  /\ UNCHANGED teleVars
  /\ physics' = TRUE
  /\ UNCHANGED <<controllers, pos, movement, mesh, body, activation, windowAmmo,
                 ammoBound, physicsWorld, disposed, liveTemps, nextId, grabbedObject,
                 constraint>>
  /\ EnvHist

\* ================================================================ teleport-arc
\* 1 m in the unit of the teleport positions
Metre == 10 ^ 5
\* velocity: { default: 6.0 }  (m/s)
Velocity == 6
\* gravity: { default: { x: 0, y: -9.8, z: 0 } }  (in 0.1 m/s^2)
GravityTenths == -98
\* const t = i * 0.06  (in 0.01 s)
StepHundredths == 6

NoHit == <<>>
NoParent == [present |-> FALSE, at |-> 0, sign |-> 1]

\* the scenes a ray is cast against: each intersectable object is at one point of the
\* axis; cls is the class of the entity owning it ("none": the object has no el)
Scenes ==
  { <<>>,
    << [at |-> 0 - Metre \div 2, cls |-> "teleportable"] >>,
    << [at |-> 0 - 30000, cls |-> "wall"], [at |-> 0 - 30000, cls |-> "teleportable"],
       [at |-> 30000, cls |-> "none"], [at |-> -Metre, cls |-> "teleportable"] >> }

\* new THREE.Vector3().copy(worldPos).addScaledVector(v0, t).addScaledVector(g, 0.5 * t * t)
\* with v0 = forward * velocity and t = i * 0.06
SamplePos(origin, dir, i) ==
  origin + dir * Velocity * StepHundredths * i * (Metre \div 100)
         + (GravityTenths * StepHundredths * StepHundredths * i * i * (Metre \div 100000)) \div 2

\* raycaster.set(prevPoint, segDir); far = len; intersectObjects(children, true):
\* the objects between a and b, nearest to a first, scene order among equals
Between(a, b, x) == (a <= x /\ x <= b) \/ (b <= x /\ x <= a)

RECURSIVE SortByDistance(_, _)
SortByDistance(S, a) ==
  IF S = {} THEN <<>>
  ELSE LET k == CHOOSE k \in S : \A j \in S :
                  \/ Abs(surfaces[k].at - a) < Abs(surfaces[j].at - a)
                  \/ (Abs(surfaces[k].at - a) = Abs(surfaces[j].at - a) /\ k <= j)
       IN <<[point |-> surfaces[k].at, cls |-> surfaces[k].cls]>> \o SortByDistance(S \ {k}, a)

intersectObjects(a, b) ==
  SortByDistance({k \in 1..Len(surfaces) : Between(a, b, surfaces[k].at)}, a)

\* faulty variant: the first intersection is taken, whatever its entity's class
FirstIntersection(intersects, j) ==
  IF j > Len(intersects) THEN NoHit ELSE <<intersects[j].point>>

\* the for (j) loop: the first intersection whose entity has the landing class
RECURSIVE FirstLanding(_, _)
FirstLanding(intersects, j) ==
  IF j > Len(intersects) THEN NoHit
  ELSE IF intersects[j].cls = "teleportable" THEN <<intersects[j].point>>
  ELSE FirstLanding(intersects, j + 1)

\* the for (i) loop of tick from sample i on (i counts from 0 as in the code)
RECURSIVE ArcFrom(_, _, _, _, _)
ArcFrom(i, prevPoint, buf, origin, dir) ==
  IF i >= Samples THEN [positions |-> buf, hit |-> NoHit]
  ELSE LET p == SamplePos(origin, dir, i)
           buf2 == [buf EXCEPT ![i + 1] = p]
           hit == IF prevPoint # <<>> /\ p # prevPoint[1]
                  THEN FirstLanding(intersectObjects(prevPoint[1], p), 1)
                  ELSE NoHit
       IN IF hit # NoHit THEN [positions |-> buf2, hit |-> hit]
          ELSE ArcFrom(i + 1, <<p>>, buf2, origin, dir)

\* rigObj.getWorldPosition: the parent's transform applied to the local position
LocalToWorld(parent, x) == IF parent.present THEN parent.at + parent.sign * x ELSE x
\* rigObj.parent.worldToLocal(newRigWorld), done only if (rigObj.parent)
WorldToLocal(parent, w) == IF parent.present THEN parent.sign * (w - parent.at) ELSE w

RigWorld == LocalToWorld(rigParent, rigPosition)
\* camera.getWorldPosition: the camera is a child of the rig
CameraWorld == LocalToWorld(rigParent, rigPosition + camLocal)

\* faulty variant: showArc without `this.visible = true'
showArcLineOnly ==
  /\ lineVisible' = TRUE
  /\ cursorVisible' = FALSE
  /\ UNCHANGED <<surfaces, cameraRig, camera, rigAmmoBody, rigBody, rigParent, rigPosition,
                 camLocal, visible, hitPoint, cursorPosition, positions>>
  /\ UNCHANGED grabVars
  /\ Hist("triggerdown", null, IF visible THEN "already-aiming" ELSE "shown", <<>>, "none")

\* faulty variant: showArc that also resets this.hitPoint
showArcClearsHit ==
  /\ visible' = TRUE
  /\ lineVisible' = TRUE
  /\ cursorVisible' = FALSE
  /\ hitPoint' = NoHit
  /\ UNCHANGED <<surfaces, cameraRig, camera, rigAmmoBody, rigBody, rigParent, rigPosition,
                 camLocal, cursorPosition, positions>>
  /\ UNCHANGED grabVars
  /\ Hist("triggerdown", null, IF visible THEN "already-aiming" ELSE "shown", <<>>, "none")

\* showArc
showArc ==
  /\ visible' = TRUE
  /\ lineVisible' = TRUE
  /\ cursorVisible' = FALSE
  /\ UNCHANGED <<surfaces, cameraRig, camera, rigAmmoBody, rigBody, rigParent, rigPosition,
                 camLocal, hitPoint, cursorPosition, positions>>
  /\ UNCHANGED grabVars
  /\ Hist("triggerdown", null, IF visible THEN "already-aiming" ELSE "shown", <<>>, "none")

\* faulty variant: hideArc without `this.hitPoint = null'
hideArcEffectKeepsHit ==
  /\ visible' = FALSE
  /\ lineVisible' = FALSE
  /\ cursorVisible' = FALSE
  /\ hitPoint' = hitPoint

\* faulty variant: hideArc without `this.visible = false'
hideArcEffectKeepsVisible ==
  /\ visible' = visible
  /\ lineVisible' = FALSE
  /\ cursorVisible' = FALSE
  /\ hitPoint' = NoHit

\* the assignments of hideArc
hideArcEffect ==
  /\ visible' = FALSE
  /\ lineVisible' = FALSE
  /\ cursorVisible' = FALSE
  /\ hitPoint' = NoHit

\* hideArc as the controllerdisconnected listener
hideArc ==
  /\ hideArcEffect
  /\ UNCHANGED <<surfaces, cameraRig, camera, rigAmmoBody, rigBody, rigParent, rigPosition,
                 camLocal, cursorPosition, positions>>
  /\ UNCHANGED grabVars
  /\ Hist("controllerdisconnected", null,
          IF hitPoint # NoHit THEN "hit-dropped" ELSE "hidden", <<>>, "none")

\* new THREE.Vector3().copy(this.hitPoint).sub(offset), offset = cameraWorldPos - rigWorldPos
NewRigWorld == hitPoint[1] - (CameraWorld - RigWorld)

\* if (rigObj.parent) rigObj.parent.worldToLocal(newRigWorld); rigObj.position.copy(newRigWorld)
SetRigPosition == rigPosition' = WorldToLocal(rigParent, NewRigWorld)

\* faulty variant: the destination is read from the cursor mesh, not from hitPoint
doTeleportToCursor ==
  /\ UNCHANGED grabVars
  /\ UNCHANGED <<surfaces, cameraRig, camera, rigAmmoBody, rigBody, rigParent, camLocal,
                 cursorPosition, positions>>
  /\ IF ~visible THEN
       /\ UNCHANGED <<rigPosition, visible, hitPoint, lineVisible, cursorVisible>>
       /\ Hist("triggerup", null, "not-visible", <<>>, "none")
     ELSE IF cameraRig /\ camera THEN
       /\ rigPosition' = WorldToLocal(rigParent, cursorPosition - (CameraWorld - RigWorld))
       /\ hideArcEffect
       /\ Hist("triggerup", null, "moved", <<>>, "none")
     ELSE
       /\ UNCHANGED rigPosition
       /\ hideArcEffect
       /\ Hist("triggerup", null, "no-move", <<>>, "none")

\* doTeleport
doTeleport ==
  /\ UNCHANGED grabVars
  /\ UNCHANGED <<surfaces, cameraRig, camera, rigAmmoBody, rigBody, rigParent, camLocal,
                 cursorPosition, positions>>
  /\ IF ~visible THEN
       /\ UNCHANGED <<rigPosition, visible, hitPoint, lineVisible, cursorVisible>>
       /\ Hist("triggerup", null, "not-visible", <<>>, "none")
     ELSE IF hitPoint # NoHit /\ cameraRig THEN
       IF ~camera THEN
         /\ UNCHANGED <<rigPosition, visible, hitPoint, lineVisible, cursorVisible>>
         /\ Hist("triggerup", null, "no-camera", <<>>, "none")
       ELSE IF rigAmmoBody /\ rigBody = "plain" THEN
         \* body.setWorldTransform is undefined: the && short-circuits, nothing is moved
         /\ UNCHANGED rigPosition
         /\ hideArcEffect
         /\ Hist("triggerup", null, "body-no-swt", <<>>, "none")
       ELSE IF rigAmmoBody /\ rigBody = "swt" THEN
         \* evaluating the argument `new CANNON' throws; the catch block moves the rig
         /\ SetRigPosition
         /\ hideArcEffect
         /\ Hist("triggerup", null, "body-catch", <<>>, "none")
       ELSE
         /\ SetRigPosition
         /\ hideArcEffect
         /\ Hist("triggerup", null, "moved", <<>>, "none")
     ELSE
       /\ UNCHANGED rigPosition
       /\ hideArcEffect
       /\ Hist("triggerup", null, "no-move", <<>>, "none")

\* tick, with the controller's world position and forward direction of this frame
tick(origin, dir) ==
  /\ UNCHANGED grabVars
  /\ UNCHANGED <<surfaces, cameraRig, camera, rigAmmoBody, rigBody, rigParent, rigPosition,
                 camLocal, visible, lineVisible>>
  /\ IF ~visible THEN
       /\ UNCHANGED <<hitPoint, cursorVisible, cursorPosition, positions>>
       /\ Hist("tick", null, "not-visible", <<>>, "none")
     ELSE LET arc == ArcFrom(0, <<>>, positions, origin, dir) IN
       /\ positions' = arc.positions
       /\ hitPoint' = arc.hit
       /\ cursorPosition' = IF arc.hit # NoHit THEN arc.hit[1] ELSE cursorPosition
       /\ cursorVisible' = FALSE
       /\ HistIn("tick", null, IF arc.hit # NoHit THEN "hit" ELSE "no-hit", <<>>, "none",
                 [origin |-> origin, dir |-> dir])

\* ---- environment of teleport-arc
CameraReady ==
  /\ ~camera
  /\ camera' = TRUE
  /\ UNCHANGED <<surfaces, cameraRig, rigAmmoBody, rigBody, rigParent, rigPosition,
                 camLocal, visible, hitPoint, lineVisible, cursorVisible, cursorPosition,
                 positions>>
  /\ UNCHANGED grabVars
  /\ EnvHist

RigBodyLoaded(b) ==
  /\ rigAmmoBody
  /\ rigBody = "none"
  /\ rigBody' = b
  /\ UNCHANGED <<surfaces, cameraRig, camera, rigAmmoBody, rigParent, rigPosition,
                 camLocal, visible, hitPoint, lineVisible, cursorVisible, cursorPosition,
                 positions>>
  /\ UNCHANGED grabVars
  /\ EnvHist

MoveHead(c) ==
  /\ c # camLocal
  /\ camLocal' = c
  /\ UNCHANGED <<surfaces, cameraRig, camera, rigAmmoBody, rigBody, rigParent, rigPosition,
                 visible, hitPoint, lineVisible, cursorVisible, cursorPosition, positions>>
  /\ UNCHANGED grabVars
  /\ EnvHist

\* init of teleport-arc
InitTeleportArc ==
  /\ surfaces \in Scenes
  /\ cameraRig \in BOOLEAN
  /\ camera \in BOOLEAN
  /\ rigAmmoBody \in BOOLEAN
  /\ rigBody = "none"
  /\ rigParent \in {NoParent, [present |-> TRUE, at |-> 0, sign |-> 1],
                    [present |-> TRUE, at |-> Metre, sign |-> -1]}
  /\ rigPosition = 0
  /\ camLocal = 0
  /\ visible = FALSE
  /\ hitPoint = NoHit
  /\ lineVisible = FALSE
  /\ cursorVisible = FALSE
  /\ cursorPosition = 0
  /\ positions = [i \in 1..Samples |-> 0]

InitHist ==
  /\ lastEvent = [ev |-> "none", hand |-> null, exit |-> "none"]
  /\ emitted = <<>>
  /\ thrown = "none"
  /\ frameInput = NoInput

\* init: this.constraint = null; this.grabbedObject = null
InitScene ==
  /\ pos = [e \in Entities |->
              IF e = "left" THEN 0 ELSE IF e = "o1" THEN 1 ELSE IF e = "o2" THEN 3 ELSE 4]
  /\ movement \in [Entities -> {"grabbable", null}]
  /\ mesh \in {m \in [Entities -> BOOLEAN] : \A e \in Entities \ LateMeshes : m[e]}
  /\ body \in {b \in [Entities -> BOOLEAN] : \A e \in Entities \ LateBodies : b[e]}
  /\ activation = [e \in Entities |-> ACTIVE_TAG]
  /\ windowAmmo \in BOOLEAN
  /\ ammoBound \in BOOLEAN
  /\ physics \in BOOLEAN
  /\ physicsWorld = {}
  /\ disposed = {}
  /\ liveTemps = {}
  /\ nextId = 1
  /\ grabbedObject = [h \in Hands |-> null]
  /\ constraint = [h \in Hands |-> NoConstraint]

\* the scene with grab-control on the left hand; teleport-arc is not attached
IdleTeleportArc ==
  /\ surfaces = <<>>
  /\ cameraRig = FALSE
  /\ camera = FALSE
  /\ rigAmmoBody = FALSE
  /\ rigBody = "none"
  /\ rigParent = NoParent
  /\ rigPosition = 0
  /\ camLocal = 0
  /\ visible = FALSE
  /\ hitPoint = NoHit
  /\ lineVisible = FALSE
  /\ cursorVisible = FALSE
  /\ cursorPosition = 0
  /\ positions = [i \in 1..Samples |-> 0]

Init ==
  /\ controllers = {"left"}
  /\ InitScene
  /\ IdleTeleportArc
  /\ InitHist

Next ==
  \/ \E h \in Hands : onButtonDown(h)
  \/ \E h \in Hands : onButtonUp(h)
  \/ \E h \in Hands, p \in 0..MaxPos : MoveHand(h, p)
  \/ \E e \in Entities : BodyLoaded(e)
  \/ \E e \in Entities : MeshLoaded(e)
  \/ AmmoLoaded
  \/ PhysicsReady

Spec == Init /\ [][Next]_vars

\* the scene with teleport-arc on a controller; no grab-control is attached
InitTeleport ==
  /\ controllers = {}
  /\ pos = [e \in Entities |-> 0]
  /\ movement = [e \in Entities |-> null]
  /\ mesh = [e \in Entities |-> TRUE]
  /\ body = [e \in Entities |-> TRUE]
  /\ activation = [e \in Entities |-> ACTIVE_TAG]
  /\ windowAmmo = TRUE
  /\ ammoBound = FALSE
  /\ physics = TRUE
  /\ physicsWorld = {}
  /\ disposed = {}
  /\ liveTemps = {}
  /\ nextId = 1
  /\ grabbedObject = [h \in Hands |-> null]
  /\ constraint = [h \in Hands |-> NoConstraint]
  /\ InitTeleportArc
  /\ InitHist

NextTeleport ==
  \/ showArc
  \/ doTeleport
  \/ hideArc
  \/ \E o \in 0..MaxOrigin, dir \in {-1, 1} : tick(o * Metre, dir)
  \/ CameraReady
  \/ \E b \in {"plain", "swt"} : RigBodyLoaded(b)
  \/ \E c \in 0..MaxHead : MoveHead(c * Metre)

SpecTeleport == InitTeleport /\ [][NextTeleport]_vars

\* the scene with grab-control on both hands, everything loaded, two grabbable objects
InitTwoHands ==
  /\ controllers = Hands
  /\ pos = [e \in Entities |->
              IF e = "left" THEN 0 ELSE IF e = "o1" THEN 1 ELSE IF e = "o2" THEN 3 ELSE 4]
  /\ movement = [e \in Entities |-> IF e \in Objects THEN "grabbable" ELSE null]
  /\ mesh = [e \in Entities |-> TRUE]
  /\ body = [e \in Entities |-> TRUE]
  /\ activation = [e \in Entities |-> ACTIVE_TAG]
  /\ windowAmmo = TRUE
  /\ ammoBound \in BOOLEAN
  /\ physics = TRUE
  /\ physicsWorld = {}
  /\ disposed = {}
  /\ liveTemps = {}
  /\ nextId = 1
  /\ grabbedObject = [h \in Hands |-> null]
  /\ constraint = [h \in Hands |-> NoConstraint]
  /\ IdleTeleportArc
  /\ InitHist

NextTwoHands ==
  \/ \E h \in Hands : onButtonDown(h)
  \/ \E h \in Hands : onButtonUp(h)
  \/ \E h \in Hands, p \in 0..MaxPos : MoveHand(h, p)

SpecTwoHands == InitTwoHands /\ [][NextTwoHands]_vars

\* ====================================================================== claims
\* the step just taken was controller h's button-down / button-up handler
DownBy(h) == lastEvent'.ev = "buttondown" /\ lastEvent'.hand = h
UpBy(h) == lastEvent'.ev = "buttonup" /\ lastEvent'.hand = h

\* constraints of the physics world that controller h created
RegisteredBy(h) == {c \in physicsWorld : c.bodyA = h}

\* C1: a controller has at most one constraint registered in the physics world, and a
\* button-down received while it holds an object creates no constraint, emits no event
\* and leaves the grabbed object and the constraint unchanged.
C1_OneConstraintPerController ==
  /\ [](\A h \in Hands : Cardinality(RegisteredBy(h)) <= 1)
  /\ [][\A h \in Hands : (DownBy(h) /\ grabbedObject[h] # null) =>
          /\ physicsWorld' = physicsWorld
          /\ nextId' = nextId
          /\ emitted' = <<>>
          /\ grabbedObject'[h] = grabbedObject[h]
          /\ constraint'[h] = constraint[h]]_vars

\* a button-down was ignored while the controller held an object by a registered constraint
C1_Witness ==
  /\ lastEvent.ev = "buttondown" /\ lastEvent.exit = "holding"
  /\ constraint["left"] \in physicsWorld
  /\ grabbedObject["left"] # null

\* C2: a button-up handled while the controller holds an object (its constraint is
\* registered) ends with the constraint removed and disposed, both references cleared
\* and 'grab-end' emitted on the object that was held.
C2_ReleaseClears ==
  [][\A h \in Hands :
       (UpBy(h) /\ grabbedObject[h] # null /\ constraint[h] \in physicsWorld /\ physics) =>
          /\ constraint[h] \notin physicsWorld'
          /\ constraint[h].id \in disposed'
          /\ constraint'[h] = NoConstraint
          /\ grabbedObject'[h] = null
          /\ emitted' = << <<grabbedObject[h], "grab-end">> >>]_vars

\* entities a scan by h accepts: grabbable, with a mesh, nearer than the radius
Candidates(h) ==
  {e \in Entities \ {h} : movement[e] = "grabbable" /\ mesh[e]
                          /\ Abs(pos[h] - pos[e]) < InteractionRadius}
\* entities the claim as stated speaks of: grabbable and within the radius
GrabbableWithin(h) ==
  {e \in Entities \ {h} : movement[e] = "grabbable"
                          /\ Abs(pos[h] - pos[e]) < InteractionRadius}

FullyLocked(c) ==
  c.linearLower = 0 /\ c.linearUpper = 0 /\ c.angularLower = 0 /\ c.angularUpper = 0

\* the state grab leaves when h has grabbed e
Grabbing(h, e) ==
  /\ grabbedObject'[h] = e
  /\ {c \in physicsWorld' : c.bodyA = h} = {constraint'[h]}
  /\ constraint'[h] \notin physicsWorld
  /\ constraint'[h].bodyA = h /\ constraint'[h].bodyB = e
  /\ FullyLocked(constraint'[h])
  /\ emitted' = << <<e, "grab-start">> >>

\* C3 as stated: Idle, hand body present, exactly one grabbable entity with a valid
\* body nearer than the radius: button-down ends in Grabbing with one locked constraint
\* and one 'grab-start'.
C3_Original ==
  [][\A h \in Hands : \A e \in Entities \ {h} :
       (/\ DownBy(h) /\ grabbedObject[h] = null /\ body[h]
        /\ {x \in Entities \ {h} : movement[x] = "grabbable" /\ body[x]
                                   /\ Abs(pos[h] - pos[x]) < InteractionRadius} = {e})
       => Grabbing(h, e)]_vars

\* C3 amended: with window.Ammo and the physics system available, and exactly one
\* entity other than the hand grabbable, with a mesh and nearer than the radius, that
\* entity having a body, button-down in Idle ends in Grabbing with exactly one fully
\* locked constraint hand-entity registered and 'grab-start' emitted once on it.
C3_GrabsTheOnlyCandidate ==
  [][\A h \in Hands : \A e \in Entities \ {h} :
       (/\ DownBy(h) /\ grabbedObject[h] = null /\ body[h]
        /\ windowAmmo /\ physics
        /\ Candidates(h) = {e} /\ body[e])
       => Grabbing(h, e)]_vars

\* the left controller has just grabbed o1, its only candidate
C3_Witness ==
  /\ lastEvent.ev = "buttondown" /\ lastEvent.exit = "grabbed"
  /\ grabbedObject["left"] = "o1"
  /\ Candidates("left") = {"o1"}
  /\ constraint["left"] \in physicsWorld

ScanIndex(e) == CHOOSE i \in 1..Len(els) : els[i] = e

\* e is the nearest member of S to h, the first in scan order among the nearest
NearestFirst(h, e, S) ==
  /\ e \in S
  /\ \A x \in S : \/ Abs(pos[h] - pos[e]) < Abs(pos[h] - pos[x])
                  \/ (Abs(pos[h] - pos[e]) = Abs(pos[h] - pos[x])
                      /\ ScanIndex(e) <= ScanIndex(x))

\* C4 as stated: nothing farther than the radius is selected, and whenever an entity
\* other than the hand is grabbable and within the radius, the nearest of those (first
\* in scan order among equals) is selected.
C4_Original ==
  \A h \in Hands :
    /\ ClosestEl(h) # null => Abs(pos[h] - pos[ClosestEl(h)]) <= InteractionRadius
    /\ GrabbableWithin(h) # {} => NearestFirst(h, ClosestEl(h), GrabbableWithin(h))

\* C4 amended: nothing farther than the radius is selected, and whenever an entity
\* other than the hand is grabbable, has a mesh and is nearer than the radius
\* (distance < 0.3), the nearest of those, first in scan order among equals, is
\* selected; with no such entity nothing is selected.
C4_SelectsNearestCandidate ==
  \A h \in Hands :
    /\ ClosestEl(h) # null => Abs(pos[h] - pos[ClosestEl(h)]) <= InteractionRadius
    /\ Candidates(h) # {} => NearestFirst(h, ClosestEl(h), Candidates(h))
    /\ Candidates(h) = {} => ClosestEl(h) = null

\* two candidates at the same distance: the left controller has grabbed the first
C4_Witness ==
  /\ lastEvent.ev = "buttondown" /\ lastEvent.exit = "grabbed"
  /\ {"o1", "o2"} \subseteq Candidates("left")
  /\ Abs(pos["left"] - pos["o1"]) = Abs(pos["left"] - pos["o2"])
  /\ grabbedObject["left"] = "o1"

\* C5: a button-down in Idle that finds no candidate, or whose hand or selected entity
\* has no body, changes nothing: grabbed object and constraint stay null, no constraint
\* is created or registered, no event is emitted, no activation state changes.
C5_FailedGrabChangesNothing ==
  [][\A h \in Hands :
       (/\ DownBy(h) /\ grabbedObject[h] = null
        /\ \/ Candidates(h) = {}
           \/ ~body[h]
           \/ ~body[ClosestEl(h)])
       => /\ grabbedObject'[h] = null
          /\ constraint[h] = NoConstraint /\ constraint'[h] = NoConstraint
          /\ physicsWorld' = physicsWorld
          /\ nextId' = nextId
          /\ emitted' = <<>>
          /\ activation' = activation
          /\ thrown' = "none"]_vars

\* a button-down selected an entity and stopped because a body handle is missing
C5_Witness ==
  /\ lastEvent.ev = "buttondown" /\ lastEvent.exit = "no-body"
  /\ Candidates("left") # {}
  /\ grabbedObject["left"] = null

\* C6: with window.Ammo missing, a button-down that selects an entity (bodies present)
\* leaves the controller Idle, no grabbed object recorded.
C6_NoAmmoStaysIdle ==
  [][\A h \in Hands :
       (/\ DownBy(h) /\ grabbedObject[h] = null /\ ~windowAmmo
        /\ ClosestEl(h) # null /\ body[h] /\ body[ClosestEl(h)])
       => grabbedObject'[h] = null]_vars

\* C7: with the physics system missing, a button-down that selects an entity (bodies
\* and window.Ammo present) changes no controller state, emits nothing and does not throw.
C7_NoPhysicsChangesNothing ==
  [][\A h \in Hands :
       (/\ DownBy(h) /\ grabbedObject[h] = null /\ ~physics /\ windowAmmo
        /\ ClosestEl(h) # null /\ body[h] /\ body[ClosestEl(h)])
       => /\ grabbedObject'[h] = null
          /\ constraint'[h] = NoConstraint
          /\ emitted' = <<>>
          /\ thrown' = "none"]_vars

\* C8: no native temporary of grab is live in a state between two events.
C8_NoLiveTemporaries == liveTemps = {}

\* the step just taken was the trigger-up handler
TriggerUp == lastEvent'.ev = "triggerup"

\* C9: a trigger-up while Aiming with a Landing Hit, a camera and a rig moves the rig to
\* hitPoint - (cameraWorld - rigWorld), so that the camera ends at hitPoint with the
\* camera-to-rig offset unchanged.
C9_TeleportPreservesOffset ==
  [][(TriggerUp /\ visible /\ hitPoint # NoHit /\ camera /\ cameraRig) =>
        /\ RigWorld' = hitPoint[1] - (CameraWorld - RigWorld)
        /\ CameraWorld' = hitPoint[1]
        /\ CameraWorld' - RigWorld' = CameraWorld - RigWorld]_vars

\* C10: every trigger-up handled while Aiming leaves the controller Hidden: visible
\* flag false, arc line hidden, Landing Hit cleared.
C10_TriggerUpHides ==
  [][(TriggerUp /\ visible) =>
        /\ ~visible'
        /\ ~lineVisible'
        /\ hitPoint' = NoHit]_vars

\* the step just taken was the trigger-down handler
TriggerDown == lastEvent'.ev = "triggerdown"

\* C11: the rig's position is changed only by a trigger-up handled while Aiming with a
\* recorded Landing Hit, a rig and a camera present; every other step (trigger-up while
\* Hidden or without a hit, trigger-down, controller-disconnect, tick) leaves it unchanged.
C11_OnlyTeleportMovesRig ==
  [][/\ rigPosition' # rigPosition =>
          (TriggerUp /\ visible /\ hitPoint # NoHit /\ cameraRig /\ camera)
     /\ (lastEvent'.ev \in {"triggerdown", "controllerdisconnected", "tick"})
          => rigPosition' = rigPosition
     /\ (TriggerUp /\ (~visible \/ hitPoint = NoHit)) => rigPosition' = rigPosition]_vars

\* a trigger-up while Aiming without a Landing Hit has left a rig, moved by an earlier
\* teleport, where it was
C11_Witness ==
  /\ lastEvent.ev = "triggerup" /\ lastEvent.exit = "no-move"
  /\ cameraRig /\ camera
  /\ rigPosition # 0

\* C12: a rig with the ammo-body attribute is moved by trigger-up (Aiming, hit, camera)
\* to the same position as a rig without a physics body, hitPoint minus the camera-rig
\* offset converted to the parent's space, whatever its body handle is.
C12_PhysicsRigMovedAlike ==
  [][(TriggerUp /\ visible /\ hitPoint # NoHit /\ cameraRig /\ camera /\ rigAmmoBody) =>
        rigPosition' = WorldToLocal(rigParent, hitPoint[1] - (CameraWorld - RigWorld))]_vars

\* C13 as stated: after every trigger-down the arc is visible and the Landing Hit is
\* empty.
C13_Original ==
  [][TriggerDown => (visible' /\ hitPoint' = NoHit)]_vars

\* C13 amended: after every trigger-down the arc and its line are visible and the
\* landing indicator is hidden; the Landing Hit is left as it was: empty when the
\* trigger-down was received while Hidden, the recorded hit when received while Aiming.
C13_ShowArcShowsAndKeepsHit ==
  [][TriggerDown =>
        /\ visible' /\ lineVisible' /\ ~cursorVisible'
        /\ hitPoint' = hitPoint
        /\ (~visible => hitPoint' = NoHit)]_vars

\* a trigger-down received while Hidden has made the arc visible, with no Landing Hit
C13_Witness ==
  /\ lastEvent.ev = "triggerdown" /\ lastEvent.exit = "shown"
  /\ visible /\ lineVisible
  /\ hitPoint = NoHit

\* C14: a trigger-down received while Aiming changes nothing: visible flag, line,
\* Landing Hit and rig position are as before, so the trigger-up that follows acts on
\* the hit recorded before it.
C14_SecondTriggerDownIgnored ==
  [][(TriggerDown /\ visible) =>
        /\ visible' = visible
        /\ lineVisible' = lineVisible
        /\ cursorVisible' = cursorVisible
        /\ hitPoint' = hitPoint
        /\ rigPosition' = rigPosition
        /\ positions' = positions]_vars

\* a trigger-down was received while Aiming with a recorded hit, which is still there
C14_Witness ==
  /\ lastEvent.ev = "triggerdown" /\ lastEvent.exit = "already-aiming"
  /\ hitPoint # NoHit

\* C15: in every reachable state a Landing Hit is recorded only if the arc is visible.
C15_HitOnlyWhileVisible == hitPoint # NoHit => visible

\* a hit recorded while the arc was visible has been dropped by hiding the arc
C15_Witness ==
  /\ lastEvent.ev = "controllerdisconnected" /\ lastEvent.exit = "hit-dropped"
  /\ hitPoint = NoHit /\ ~visible

\* the step just taken was the controllerdisconnected listener
Disconnect == lastEvent'.ev = "controllerdisconnected"

\* C16: a controller-disconnect leaves the controller Hidden with no Landing Hit and
\* moves nothing; the arc becomes visible again only by a trigger-down, and a trigger-up
\* received while Hidden does not move the rig.
C16_DisconnectCancels ==
  [][/\ Disconnect =>
          /\ ~visible' /\ ~lineVisible' /\ ~cursorVisible'
          /\ hitPoint' = NoHit
          /\ rigPosition' = rigPosition
     /\ (~visible /\ visible') => TriggerDown
     /\ (TriggerUp /\ ~visible) =>
          /\ rigPosition' = rigPosition
          /\ ~visible' /\ hitPoint' = NoHit]_vars

\* a trigger-up arrived right after a disconnect (the rig, moved by an earlier
\* teleport, stayed where it was)
C16_Witness ==
  /\ lastEvent.ev = "triggerup" /\ lastEvent.exit = "not-visible"
  /\ rigPosition # 0
  /\ ~visible /\ hitPoint = NoHit

\* sample i of the arc from `origin' along `dir': origin + v0*(i*dt) + 0.5*g*(i*dt)^2 with
\* |v0| = 6.0, g = -9.8, dt = 0.06, i.e. 0.36 m and 0.01764 m in units of 0.00001 m
ArcPoint(origin, dir, i) == origin + dir * 36000 * i - 1764 * i * i

\* the landing-marked objects on segment k, which runs from sample k-1 to sample k
LandingOn(origin, dir, k) ==
  {j \in 1..Len(surfaces) :
     /\ surfaces[j].cls = "teleportable"
     /\ \/ /\ ArcPoint(origin, dir, k - 1) <= surfaces[j].at
           /\ surfaces[j].at <= ArcPoint(origin, dir, k)
        \/ /\ ArcPoint(origin, dir, k) <= surfaces[j].at
           /\ surfaces[j].at <= ArcPoint(origin, dir, k - 1)}

\* the earliest segment with a landing-marked object, 0 if there is none
HitSegment(origin, dir) ==
  IF \E k \in 1..(Samples - 1) : LandingOn(origin, dir, k) # {}
  THEN CHOOSE k \in 1..(Samples - 1) :
         /\ LandingOn(origin, dir, k) # {}
         /\ \A m \in 1..(k - 1) : LandingOn(origin, dir, m) = {}
  ELSE 0

\* p is the landing-marked point of segment k nearest to the segment's start
NearestLanding(origin, dir, k, p) ==
  \E j \in LandingOn(origin, dir, k) :
     /\ surfaces[j].at = p
     /\ \A m \in LandingOn(origin, dir, k) :
          Abs(surfaces[j].at - ArcPoint(origin, dir, k - 1))
            <= Abs(surfaces[m].at - ArcPoint(origin, dir, k - 1))

\* the state is the one an Aiming tick has just left
AfterAimingTick == lastEvent.ev = "tick" /\ lastEvent.exit # "not-visible"

C18_Original ==
  AfterAimingTick =>
    \A i \in 0..(Samples - 1) :
       positions[i + 1] = ArcPoint(frameInput.origin, frameInput.dir, i)

\* C19: between two events a controller's session is consistent: the grabbed object is
\* non-null exactly when the constraint is non-null, and exactly when that constraint is
\* registered in the physics world.
C19_SessionConsistent ==
  \A h \in Hands :
    /\ grabbedObject[h] # null <=> constraint[h] # NoConstraint
    /\ constraint[h] # NoConstraint <=> constraint[h] \in physicsWorld

\* controller h holds entity e: its constraint on e is registered in the physics world
Holds(h, e) ==
  /\ grabbedObject[h] = e
  /\ constraint[h] \in physicsWorld
  /\ constraint[h].bodyB = e

====
